---- MODULE Spec2Model ----
(***************************************************************************)
(* A model of SATPracticeApp (src/satprepapp.py): the test session state   *)
(* machine, the persisted session snapshot (progress.json) and the         *)
(* analytics record (analytics.json).                                      *)
(*                                                                         *)
(* One action per Qt signal handler.  A handler runs to completion on the  *)
(* single GUI thread; both handlers that open a modal dialog stop the      *)
(* QTimer before opening it, so no other handler interleaves with it and   *)
(* the dialog's reply is an input of the action.                           *)
(*                                                                         *)
(* Not modelled: widget texts and styling, the test_state fields           *)
(* start_time and elapsed (written, never read), the date of a history     *)
(* entry, and failing file writes.  Seconds are scaled down: the config    *)
(* record below holds the limits in seconds instead of minutes * 60.       *)
(* Percentages are exact rationals, not IEEE doubles.                      *)
(***************************************************************************)
EXTENDS Integers, Sequences, FiniteSets, TLC

VARIABLES
    test_state,         \* self.test_state
    questions,          \* self.questions, the active (sampled) question set
    remaining_seconds,  \* self.remaining_seconds
    timer_active,       \* self.timer.isActive()
    screen,             \* self.stacked.currentWidget()
    analytics,          \* self.analytics
    results,            \* what rw_score_label and math_score_label show: correct / total
    progress_file,      \* the file at PROGRESS_PATH
    analytics_file,     \* the file at ANALYTICS_PATH
    bank_ok,            \* per section: the question bank file exists and parses
    disk_ok,            \* writes to and removals from the data directory succeed
    shown,              \* the message boxes the last handler showed, and the replies
    probe               \* arguments and result of a function applied on its own

vars == <<test_state, questions, remaining_seconds, timer_active, screen,
          analytics, results, progress_file, analytics_file, bank_ok, disk_ok,
          shown, probe>>

-----------------------------------------------------------------------------
(* Bounds of the model *)

\* completed tests after which no further full test is started
MaxTests == 1

\* entries of a question bank when load_questions is studied on its own
MaxPool == 3

\* largest total_questions asked of load_questions on its own
MaxNeeded == 3

\* calls of update_analytics when it is studied on its own
MaxRuns == 2

\* largest number of questions of a section scored by those calls
MaxTotal == 5

-----------------------------------------------------------------------------
(* Values *)

\* Python None, JSON null
None == "None"

Sections == {"RW", "MATH"}

Yes == "Yes"
No == "No"
Replies == {Yes, No}

\* chr(ord('A') + id) for the four radio buttons
ChoiceLetters == <<"A", "B", "C", "D">>

\* the radio buttons test_screen creates
NumChoiceButtons == 4

\* config.json as load_config returns it; limits in (scaled) seconds
config ==
    [ total_questions     |-> [rw |-> 2, math |-> 1],
      default_time_limits |-> [rw |-> 2, math |-> 1],
      break_duration      |-> 1 ]

lower(section) == IF section = "RW" THEN "rw" ELSE "math"

\* The "questions" array of each bank file.  wellformed is FALSE for an
\* entry that lacks one of the keys id, question, options, answer; category
\* is None where the key is absent.
BankFile ==
    [ RW   |-> << [id |-> "RW1", wellformed |-> TRUE,  options |-> 2,
                   answer |-> "A", category |-> "Main Idea"],
                  [id |-> "RWx", wellformed |-> FALSE, options |-> 2,
                   answer |-> "A", category |-> "Main Idea"],
                  [id |-> "RW2", wellformed |-> TRUE,  options |-> 2,
                   answer |-> "B", category |-> None] >>,
      MATH |-> << [id |-> "M1", wellformed |-> TRUE,  options |-> 2,
                   answer |-> "B", category |-> "Algebra"],
                  [id |-> "M2", wellformed |-> TRUE,  options |-> 2,
                   answer |-> "A", category |-> "Algebra"] >> ]

-----------------------------------------------------------------------------
(* Python dicts with integer and string keys, and their JSON form *)

\* str(i) for the indices the model uses
DecimalDigits == <<"0", "1", "2", "3", "4", "5", "6", "7", "8", "9">>
Str(i) == DecimalDigits[i + 1]

IntKey(i) == <<"int", i>>
StrKey(i) == <<"str", Str(i)>>
IsIntKey(k) == k[1] = "int"

EmptyDict == [k \in {} |-> None]

\* d.get(k)
Get(d, k) == IF k \in DOMAIN d THEN d[k] ELSE None

\* d.get(k, default)
GetOr(d, k, default) == IF k \in DOMAIN d THEN d[k] ELSE default

\* d[k] = v
Put(d, k, v) == [x \in (DOMAIN d) \cup {k} |-> IF x = k THEN v ELSE d[x]]

\* json.dump writes every key of an object as a string: the int key i
\* becomes "i".  A dict that holds both "i" (from an earlier json.load) and
\* i (stored later by save_answer) is written with the name "i" twice, the
\* int key's member last (dict order is insertion order), and json.load
\* keeps the last member of a repeated name.
JsonKey(k) == IF IsIntKey(k) THEN StrKey(k[2]) ELSE k

JsonObject(d) ==
    [ j \in {JsonKey(k) : k \in DOMAIN d} |->
        LET ints == {k \in DOMAIN d : IsIntKey(k) /\ JsonKey(k) = j}
        IN  IF ints # {} THEN d[CHOOSE k \in ints : TRUE] ELSE d[j] ]

-----------------------------------------------------------------------------
(* Exact rationals <<numerator, denominator>> for the percentages *)

RECURSIVE GCD(_, _)
GCD(a, b) == IF b = 0 THEN a ELSE GCD(b, a % b)

Norm(n, d) == LET g == GCD(n, d) IN IF n = 0 THEN <<0, 1>> ELSE <<n \div g, d \div g>>

FAdd(x, y) == Norm(x[1] * y[2] + y[1] * x[2], x[2] * y[2])
FScale(x, k) == Norm(x[1] * k, x[2])
FDivInt(x, k) == Norm(x[1], x[2] * k)
FLeq(x, y) == x[1] * y[2] <= y[1] * x[2]
FEq(x, y) == x[1] * y[2] = y[1] * x[2]

\* variant: the smaller of the two
FMin(x, y) == IF FLeq(x, y) THEN x ELSE y

FMax(x, y) == IF FLeq(x, y) THEN y ELSE x

\* round(x, 1), in tenths (no percentage of the model lies on a tie)
Round1(x) == (20 * x[1] + x[2]) \div (2 * x[2])

-----------------------------------------------------------------------------
(* The application object: every handler is an operator from the state     *)
(* before it to the state after it.                                        *)

\* the score labels as review_screen creates them ("Reading/Writing: -",
\* "Math: -"): no score, written as a score record no test can produce
NoResults ==
    [ sec \in Sections |-> [correct |-> -1, total |-> -1] ]

\* No message box yet.  resume: the reply to "Previous test progress found.
\* Resume?"; time_up: the "Time's up!" notice; confirm: the reply to "Are you
\* sure you want to submit this section?"; error: a QMessageBox.critical;
\* warning: the "Load Progress Error" notice; exported: the scores in the
\* file that "Results saved successfully" names.
NoDialog ==
    [ resume |-> None, time_up |-> FALSE, confirm |-> None, error |-> FALSE,
      warning |-> FALSE, exported |-> NoResults ]

\* a handler starts with no message box shown
Self ==
    [ test_state        |-> test_state,
      questions         |-> questions,
      remaining_seconds |-> remaining_seconds,
      timer_active      |-> timer_active,
      screen            |-> screen,
      analytics         |-> analytics,
      results           |-> results,
      progress_file     |-> progress_file,
      analytics_file    |-> analytics_file,
      bank_ok           |-> bank_ok,
      disk_ok           |-> disk_ok,
      shown             |-> NoDialog ]

Becomes(s) ==
    /\ test_state' = s.test_state
    /\ questions' = s.questions
    /\ remaining_seconds' = s.remaining_seconds
    /\ timer_active' = s.timer_active
    /\ screen' = s.screen
    /\ analytics' = s.analytics
    /\ results' = s.results
    /\ progress_file' = s.progress_file
    /\ analytics_file' = s.analytics_file
    /\ bank_ok' = s.bank_ok
    /\ disk_ok' = s.disk_ok
    /\ shown' = s.shown
    /\ UNCHANGED probe

\* no function is applied on its own while the application runs
NoProbe == [op |-> "none"]

\* the test_state literal of __init__ and back_to_menu (phase differs)
InitialTestState(phase) ==
    [ current_section |-> None,
      current_module  |-> None,
      rw_index        |-> 0,
      math_index      |-> 0,
      user_answers    |-> [RW |-> EmptyDict, MATH |-> EmptyDict],
      test_phase      |-> phase ]

DefaultAnalytics ==
    [ tests_taken        |-> 0,
      average_scores     |-> [RW |-> <<0, 1>>, MATH |-> <<0, 1>>],
      best_scores        |-> [RW |-> <<0, 1>>, MATH |-> <<0, 1>>],
      weakest_categories |-> [RW |-> EmptyDict, MATH |-> EmptyDict],
      progress_over_time |-> <<>> ]

\* no file at PROGRESS_PATH
NoProgress ==
    [ exists |-> FALSE, parses |-> TRUE, test_state |-> InitialTestState(None),
      questions |-> <<>>, remaining_seconds |-> 0 ]

\* a file at PROGRESS_PATH that json.load rejects: empty or cut short
CorruptProgress == [NoProgress EXCEPT !.exists = TRUE, !.parses = FALSE]

\* no file at ANALYTICS_PATH
NoAnalyticsFile == [exists |-> FALSE, data |-> DefaultAnalytics]

-----------------------------------------------------------------------------
(* Question Bank Loader *)

Min(a, b) == IF a <= b THEN a ELSE b

IsWellFormed(q) == q.wellformed

\* the entries of a bank that carry all four required keys, in bank order
ValidOf(pool) == SelectSeq(pool, IsWellFormed)

valid_questions(section) == ValidOf(BankFile[section])

SampleSize(section) ==
    Min(Len(valid_questions(section)), config.total_questions[lower(section)])

\* variant: k draws with replacement
SamplesWithRepeats(v, k) ==
    {[i \in 1..k |-> v[p[i]]] : p \in [1..k -> 1..Len(v)]}

\* the results random.sample(v, k) can return: k different positions of v,
\* in any order
SamplesOf(v, k) ==
    {[i \in 1..k |-> v[p[i]]] :
        p \in {f \in [1..k -> 1..Len(v)] :
                 \A i, j \in 1..k : i # j => f[i] # f[j]}}

Samples(section) == SamplesOf(valid_questions(section), SampleSize(section))

\* what load_questions can return for a bank file holding pool (readable or
\* not) when the config asks for total_needed questions
LoadOutcomes(pool, readable, total_needed, for_analytics) ==
    IF ~readable THEN {<<>>}
    ELSE IF ValidOf(pool) = <<>> THEN {<<>>}
    ELSE IF for_analytics THEN {ValidOf(pool)}
    ELSE SamplesOf(ValidOf(pool), Min(Len(ValidOf(pool)), total_needed))

\* one outcome of random.sample per section, drawn by the action
Picks == [RW : Samples("RW"), MATH : Samples("MATH")]

load_questions(s, section, for_analytics, pick) ==
    IF ~s.bank_ok[section] THEN <<>>
    ELSE IF valid_questions(section) = <<>> THEN <<>>
    ELSE IF for_analytics THEN valid_questions(section)
    ELSE pick[section]

-----------------------------------------------------------------------------
(* Session State Store *)

\* what json.dump(data, f) leaves in the file
JsonDump(ts, qs, secs) ==
    [ exists            |-> TRUE,
      parses            |-> TRUE,
      test_state        |-> [ts EXCEPT !.user_answers =
                                [sec \in Sections |-> JsonObject(ts.user_answers[sec])]],
      questions         |-> qs,
      remaining_seconds |-> secs ]

\* os.remove and open(PROGRESS_PATH, "w") raise when the disk refuses; both
\* exceptions are caught and printed, the file stays as it was
save_progress(s, delete) ==
    IF ~s.disk_ok THEN s
    ELSE IF delete
    THEN [s EXCEPT !.progress_file = NoProgress]
    ELSE [s EXCEPT !.progress_file =
                JsonDump(s.test_state, s.questions, s.remaining_seconds)]

\* variant: the declined snapshot is left on disk
DeclineResumeKeepsFile(s) == [s EXCEPT !.shown.resume = No]

\* load_progress, reply No: "clear the progress file"
DeclineResume(s) == save_progress([s EXCEPT !.shown.resume = No], TRUE)

\* variant: the file that failed to load is left on disk
LoadFailedKeepsFile(s) ==
    [s EXCEPT !.shown.warning = TRUE, !.test_state = InitialTestState(None)]

\* load_progress, both except branches: the warning, the file deleted, the
\* test_state literal assigned anew
LoadFailed(s) ==
    [ save_progress([s EXCEPT !.shown.warning = TRUE], TRUE)
        EXCEPT !.test_state = InitialTestState(None) ]

\* json.load gives the object names back as str keys
load_progress(s, reply) ==
    IF ~s.progress_file.exists THEN s
    ELSE IF reply = Yes
    THEN IF s.progress_file.parses
         THEN [s EXCEPT !.shown.resume = Yes,
                        !.test_state = s.progress_file.test_state,
                        !.questions = s.progress_file.questions,
                        !.remaining_seconds = s.progress_file.remaining_seconds]
         ELSE LoadFailed([s EXCEPT !.shown.resume = Yes])
    ELSE DeclineResume(s)

-----------------------------------------------------------------------------
(* Scoring & Analytics Engine *)

Category(q) == IF q.category = None THEN "Uncategorized" ELSE q.category

\* sum(1 for i, q in enumerate(bank) if user_answers[section].get(i) == q.get('answer'))
CorrectCount(answers, bank) ==
    Cardinality({i \in 1..Len(bank) : Get(answers, IntKey(i - 1)) = bank[i].answer})

\* (correct / total) * 100 if total > 0 else 0
Percentage(score_data) ==
    IF score_data.total > 0 THEN Norm(score_data.correct * 100, score_data.total)
    ELSE <<0, 1>>

\* variant: the new percentage weighs as much as all earlier tests together
RunningAverageOfTwo(current_avg, num_tests, percentage) ==
    FDivInt(FAdd(current_avg, percentage), 2)

\* ((current_avg * (num_tests - 1)) + percentage) / num_tests if num_tests > 0 else percentage
RunningAverage(current_avg, num_tests, percentage) ==
    IF num_tests > 0
    THEN FDivInt(FAdd(FScale(current_avg, num_tests - 1), percentage), num_tests)
    ELSE percentage

\* the condition under which update_analytics counts question i against its category
CountsAsWeak(user_answer, correct_answer) ==
    user_answer # None /\ user_answer # correct_answer

\* the loop over enumerate(questions_list) of update_analytics, up to question n
RECURSIVE WeakLoop(_, _, _, _)
WeakLoop(weak, answers, bank, n) ==
    IF n = 0 THEN weak
    ELSE LET before == WeakLoop(weak, answers, bank, n - 1)
             q == bank[n]
         IN  IF CountsAsWeak(Get(answers, IntKey(n - 1)), q.answer)
             THEN Put(before, Category(q), GetOr(before, Category(q), 0) + 1)
             ELSE before

\* variant: after a failed write the record in memory is taken back to what
\* the file holds
save_analytics_reverting(s) ==
    IF ~s.disk_ok
    THEN [s EXCEPT !.shown.error = TRUE, !.analytics = s.analytics_file.data]
    ELSE [s EXCEPT !.analytics_file = [exists |-> TRUE, data |-> s.analytics]]

\* a failed write is reported by a QMessageBox.critical and nothing else
save_analytics(s) ==
    IF ~s.disk_ok THEN [s EXCEPT !.shown.error = TRUE]
    ELSE [s EXCEPT !.analytics_file = [exists |-> TRUE, data |-> s.analytics]]

\* variant: the counter is not incremented
TestsTakenForgotten(tests_taken) == tests_taken

\* self.analytics["tests_taken"] += 1
TestsTakenAfter(tests_taken) == tests_taken + 1

\* variant: only the latest test is kept
HistoryOfLatestOnly(progress_over_time, entry) == <<entry>>

\* self.analytics["progress_over_time"].append({...})
HistoryAfter(progress_over_time, entry) == Append(progress_over_time, entry)

update_analytics(s, rw_score_data, math_score_data) ==
    LET a == s.analytics
        num_tests == TestsTakenAfter(a.tests_taken)
        rw_percentage == Percentage(rw_score_data)
        math_percentage == Percentage(math_score_data)
        all == [sec \in Sections |-> load_questions(s, sec, TRUE, <<>>)]
        updated ==
            [ tests_taken    |-> num_tests,
              average_scores |->
                [ RW   |-> RunningAverage(a.average_scores.RW, num_tests, rw_percentage),
                  MATH |-> RunningAverage(a.average_scores.MATH, num_tests, math_percentage) ],
              best_scores    |->
                [ RW   |-> FMax(a.best_scores.RW, rw_percentage),
                  MATH |-> FMax(a.best_scores.MATH, math_percentage) ],
              weakest_categories |->
                [ sec \in Sections |->
                    WeakLoop(a.weakest_categories[sec],
                             s.test_state.user_answers[sec], all[sec], Len(all[sec])) ],
              progress_over_time |->
                HistoryAfter(a.progress_over_time,
                       [RW |-> Round1(rw_percentage), MATH |-> Round1(math_percentage)]) ]
    IN  save_analytics([s EXCEPT !.analytics = updated])

\* variant: scored against the sampled set in memory, not the complete bank
ScoreDataOfActiveSet(s, section) ==
    [ correct |-> CorrectCount(s.test_state.user_answers[section], s.questions),
      total   |-> Len(s.questions) ]

\* the score data show_results passes to update_analytics
ScoreData(s, section) ==
    LET all == load_questions(s, section, TRUE, <<>>)
    IN  [ correct |-> CorrectCount(s.test_state.user_answers[section], all),
          total   |-> Len(all) ]

-----------------------------------------------------------------------------
(* Test Session Engine *)

\* variant: the timer is left running
StopTimerForgotten(s) == s

\* self.timer.stop()
StopTimer(s) == [s EXCEPT !.timer_active = FALSE]

current_index(s) ==
    IF s.test_state.current_section = "RW"
    THEN s.test_state.rw_index ELSE s.test_state.math_index

set_current_index(s, val) ==
    save_progress(
        IF s.test_state.current_section = "RW"
        THEN [s EXCEPT !.test_state.rw_index = val]
        ELSE [s EXCEPT !.test_state.math_index = val],
        FALSE)

\* variant: the menu is shown over the session as it was
back_to_menu_keeping_session(s) ==
    [save_progress(
        [StopTimer(s) EXCEPT !.test_state.test_phase = "MENU"],
        TRUE) EXCEPT !.screen = "menu"]

back_to_menu(s) ==
    [save_progress(
        [StopTimer(s) EXCEPT !.test_state = InitialTestState("MENU"),
                             !.questions = <<>>],
        TRUE) EXCEPT !.screen = "menu"]

\* only the error branch of show_question changes state
show_question(s) ==
    IF s.questions = <<>> \/ current_index(s) >= Len(s.questions)
    THEN back_to_menu([s EXCEPT !.shown.error = TRUE])
    ELSE s

\* the part of start_test_section after the questions are in place
EnterSection(s) ==
    save_progress(
        [show_question([s EXCEPT !.timer_active = TRUE]) EXCEPT !.screen = "test"],
        FALSE)

\* variant: the phase is left at the section that failed to start
AbortSectionStartKeepsPhase(s) ==
    [s EXCEPT !.questions = <<>>, !.shown.error = TRUE, !.screen = "menu"]

\* variant: the screen is left where it was
AbortSectionStartStaysPut(s) ==
    [s EXCEPT !.questions = <<>>, !.shown.error = TRUE,
              !.test_state.test_phase = "MENU"]

\* both places where start_test_section gives up: back to the menu widget
AbortSectionStart(s) ==
    [s EXCEPT !.questions = <<>>, !.shown.error = TRUE,
              !.screen = "menu", !.test_state.test_phase = "MENU"]

\* variant: a resume always loads a fresh sample
NeedsReloadAlways(qs) == TRUE

\* "if not self.questions" on resume: the saved question set is unusable
NeedsReload(qs) == qs = <<>>

start_test_section(s, section, resume, pick) ==
    LET s1 == [s EXCEPT !.test_state.current_section = section,
                        !.test_state.test_phase = section]
        loaded == load_questions(s1, section, FALSE, pick)
        limit == config.default_time_limits[lower(section)]
    IN  IF ~resume
        THEN IF loaded = <<>>
             THEN AbortSectionStart(s1)
             ELSE EnterSection(
                    IF section = "RW"
                    THEN [s1 EXCEPT !.questions = loaded, !.remaining_seconds = limit,
                                    !.test_state.rw_index = 0]
                    ELSE [s1 EXCEPT !.questions = loaded, !.remaining_seconds = limit,
                                    !.test_state.math_index = 0])
        ELSE IF NeedsReload(s1.questions)
             THEN IF loaded = <<>>
                  THEN AbortSectionStart(s1)
                  ELSE EnterSection([s1 EXCEPT !.questions = loaded,
                                               !.shown.error = TRUE,
                                               !.remaining_seconds = limit])
             ELSE EnterSection(s1)

\* variant: the indices and answers of the session before are kept
StaleTestState(s) ==
    [s.test_state EXCEPT !.current_section = "RW", !.current_module = "RW1",
                         !.test_phase = "RW"]

\* the test_state literal start_full_test assigns; nothing of s is kept
FreshTestState(s) ==
    [InitialTestState("RW") EXCEPT !.current_section = "RW",
                                   !.current_module = "RW1"]

start_full_test(s, pick) ==
    LET s1 == save_progress([s EXCEPT !.test_state = FreshTestState(s),
                                      !.questions = <<>>], TRUE)
    IN  start_test_section(s1, "RW", FALSE, pick)

\* variant: the break start scores the test so far
start_break_scoring(s) ==
    save_progress(
        [update_analytics(s, ScoreData(s, "RW"), ScoreData(s, "MATH")) EXCEPT
                  !.test_state.test_phase = "BREAK",
                  !.remaining_seconds = config.break_duration,
                  !.timer_active = TRUE,
                  !.screen = "break"],
        FALSE)

start_break(s) ==
    save_progress(
        [s EXCEPT !.test_state.test_phase = "BREAK",
                  !.remaining_seconds = config.break_duration,
                  !.timer_active = TRUE,
                  !.screen = "break"],
        FALSE)

\* variant: the MATH section is entered as a resume
start_next_section_resuming(s, pick) ==
    start_test_section(
        [StopTimer(s) EXCEPT !.test_state.test_phase = "MATH"],
        "MATH", TRUE, pick)

start_next_section(s, pick) ==
    start_test_section(
        [StopTimer(s) EXCEPT !.test_state.test_phase = "MATH"],
        "MATH", FALSE, pick)

\* variant: the snapshot survives the end of the test
ResultsKeepSnapshot(s) == s

\* "Clear progress file after test completion"
ResultsClearSnapshot(s) == save_progress(s, TRUE)

show_results(s) ==
    LET s1 == StopTimer(s)
        rw_score_data == ScoreData(s1, "RW")
        math_score_data == ScoreData(s1, "MATH")
        s2 == update_analytics(s1, rw_score_data, math_score_data)
        s3 == [s2 EXCEPT !.results = [RW |-> rw_score_data, MATH |-> math_score_data]]
    IN  [ResultsClearSnapshot(s3) EXCEPT !.screen = "review"]

\* variant: the export scores the question set in memory
ExportScoreDataOfActiveSet(s, section) == ScoreDataOfActiveSet(s, section)

\* "score" and "total_questions" of a section in the exported results:
\* sum(1 for a in detailed_answers if a['is_correct']), len(detailed_answers)
ExportScoreData(s, section) ==
    LET all == load_questions(s, section, TRUE, <<>>)
        answers == s.test_state.user_answers[section]
    IN  [ correct |-> Cardinality({i \in 1..Len(all) :
                          GetOr(answers, IntKey(i - 1), "N/A") = all[i].answer}),
          total   |-> Len(all) ]

\* variant: an export counts as another completed test
save_results_recording(s, filename, writable) ==
    update_analytics(s, ExportScoreData(s, "RW"), ExportScoreData(s, "MATH"))

\* filename: the file dialog returned a name; writable: open(filename, "w")
\* and json.dump succeed
save_results(s, filename, writable) ==
    IF ~filename THEN s
    ELSE LET s1 == [s EXCEPT !.shown.error =
                        \E sec \in Sections : ~s.bank_ok[sec]]
         IN  IF writable
             THEN [s1 EXCEPT !.shown.exported =
                      [sec \in Sections |-> ExportScoreData(s, sec)]]
             ELSE [s1 EXCEPT !.shown.error = TRUE]

\* variant: every confirmed submit ends the test
AfterSubmitAlwaysResults(current_section) == "results"

\* where a confirmed submit of current_section leads
AfterSubmit(current_section) ==
    IF current_section = "RW" THEN "break" ELSE "results"

\* variant: a declined submit leaves the timer stopped
AfterDeclineTimerStopped(s) == s

\* the else branch of submit_section: the user cancels, the timer is started again
AfterDecline(s) == [s EXCEPT !.timer_active = TRUE]

\* reply is the answer to "Are you sure you want to submit this section?"
submit_section(s, reply) ==
    LET s1 == [StopTimer(s) EXCEPT !.shown.confirm = reply]
    IN  IF reply = Yes
        THEN IF AfterSubmit(s1.test_state.current_section) = "break"
             THEN start_break(s1)
             ELSE show_results(s1)
        ELSE AfterDecline(s1)

\* variant: no tick saves the snapshot
TickSavePhasesNone == {}

\* variant: the break countdown is saved too
TickSavePhasesWithBreak == {"RW", "MATH", "BREAK"}

\* the phases in which a tick that counts down also saves the snapshot
TickSavePhases == {"RW", "MATH"}

update_timer(s, reply) ==
    IF s.remaining_seconds <= 0
    THEN submit_section([StopTimer(s) EXCEPT !.shown.time_up = TRUE], reply)
    ELSE LET s1 == [s EXCEPT !.remaining_seconds = s.remaining_seconds - 1]
         IN  IF s1.test_state.test_phase \in TickSavePhases
             THEN save_progress(s1, FALSE)
             ELSE s1

\* btn is the id of the radio button clicked
save_answer(s, btn) ==
    LET idx == current_index(s)
        section == s.test_state.current_section
        answer == ChoiceLetters[btn + 1]
    IN  save_progress(
            [s EXCEPT !.test_state.user_answers[section] =
                        Put(s.test_state.user_answers[section], IntKey(idx), answer)],
            FALSE)

\* the guards of prev_question and next_question; n is len(self.questions)
CanGoPrev(idx) == idx > 0

\* variant: "Next" is accepted on the last question too
CanGoNextPastEnd(idx, n) == idx < n

CanGoNext(idx, n) == idx < n - 1

prev_question(s) ==
    LET idx == current_index(s)
    IN  IF CanGoPrev(idx) THEN show_question(set_current_index(s, idx - 1)) ELSE s

next_question(s) ==
    LET idx == current_index(s)
    IN  IF CanGoNext(idx, Len(s.questions))
        THEN show_question(set_current_index(s, idx + 1)) ELSE s

\* the radio buttons show_question shows for question q
ShownButtons(q) == {i \in 0..(NumChoiceButtons - 1) : i < q.options}

load_analytics(s) ==
    [s EXCEPT !.analytics = IF s.analytics_file.exists
                            THEN s.analytics_file.data ELSE DefaultAnalytics]

\* SATPracticeApp.__init__ on the files f left by earlier runs; reply is the
\* answer to "Previous test progress found. Resume?"
Construct(f, reply, pick) ==
    LET s0 == [ test_state        |-> InitialTestState(None),
                questions         |-> <<>>,
                remaining_seconds |-> 0,
                timer_active      |-> FALSE,
                screen            |-> "menu",
                analytics         |-> DefaultAnalytics,
                results           |-> NoResults,
                progress_file     |-> f.progress_file,
                analytics_file    |-> f.analytics_file,
                bank_ok           |-> f.bank_ok,
                disk_ok           |-> f.disk_ok,
                shown             |-> NoDialog ]
        s1 == load_progress(load_analytics(s0), reply)
    IN  IF s1.test_state.test_phase = "BREAK"
        THEN start_break(s1)
        ELSE IF s1.test_state.current_section # None
        THEN start_test_section(s1, s1.test_state.current_section, TRUE, pick)
        ELSE [s1 EXCEPT !.screen = "menu", !.test_state.test_phase = "MENU"]

\* The outcomes of random.sample a process start can see: __init__ samples
\* only when an accepted resume finds no question set in the snapshot p;
\* otherwise no sample is taken and one outcome stands for all.
PicksOnStart(p, reply) ==
    IF p.exists /\ reply = Yes /\ p.questions = <<>>
    THEN Picks
    ELSE {CHOOSE pick \in Picks : TRUE}

-----------------------------------------------------------------------------
(* The files the first run finds *)

\* A snapshot without its question set ("older progress files", the case
\* load_progress defaults with data.get("questions", []) and
\* start_test_section calls "questions weren't saved properly"): a running
\* section, its index within the section's sample size, one second used.
LegacyProgress ==
    { [ exists |-> TRUE,
        parses |-> TRUE,
        test_state |->
            [ InitialTestState(sec) EXCEPT
                !.current_section = sec,
                !.current_module = "RW1",
                !.rw_index = IF sec = "RW" THEN idx ELSE 0,
                !.math_index = IF sec = "MATH" THEN idx ELSE 0 ],
        questions |-> <<>>,
        remaining_seconds |-> config.default_time_limits[lower(sec)] - 1 ] :
      sec \in Sections, idx \in 0..1 }

InitialFiles ==
    [ progress_file  : {NoProgress} \cup
                       {p \in LegacyProgress :
                          /\ p.test_state.rw_index < SampleSize("RW")
                          /\ p.test_state.math_index < SampleSize("MATH")},
      analytics_file : {NoAnalyticsFile},
      bank_ok        : [Sections -> BOOLEAN],
      disk_ok        : {TRUE} ]

-----------------------------------------------------------------------------
(* Specification *)

Init ==
    /\ \E f \in InitialFiles, reply \in Replies :
       \E pick \in PicksOnStart(f.progress_file, reply) :
         LET s == Construct(f, reply, pick)
         IN  /\ test_state = s.test_state
             /\ questions = s.questions
             /\ remaining_seconds = s.remaining_seconds
             /\ timer_active = s.timer_active
             /\ screen = s.screen
             /\ analytics = s.analytics
             /\ results = s.results
             /\ progress_file = s.progress_file
             /\ analytics_file = s.analytics_file
             /\ bank_ok = s.bank_ok
             /\ disk_ok = s.disk_ok
             /\ shown = s.shown
    /\ probe = NoProbe

\* "Start Full Test" on the menu screen
StartFullTest ==
    /\ screen = "menu"
    /\ analytics.tests_taken < MaxTests
    /\ \E pick \in Picks : Becomes(start_full_test(Self, pick))

\* "View Analytics" on the menu screen
ViewAnalytics ==
    /\ screen = "menu"
    /\ screen' = "analytics"
    /\ UNCHANGED <<test_state, questions, remaining_seconds, timer_active,
                   analytics, results, progress_file, analytics_file, bank_ok,
                   disk_ok, probe>>
    /\ shown' = NoDialog

\* "Back to Menu" on the analytics screen
AnalyticsBack ==
    /\ screen = "analytics"
    /\ screen' = "menu"
    /\ UNCHANGED <<test_state, questions, remaining_seconds, timer_active,
                   analytics, results, progress_file, analytics_file, bank_ok,
                   disk_ok, probe>>
    /\ shown' = NoDialog

\* QTimer.timeout
Tick ==
    /\ timer_active
    /\ \E reply \in Replies : Becomes(update_timer(Self, reply))

\* "Previous" on the test screen
PrevQuestion ==
    /\ screen = "test"
    /\ Becomes(prev_question(Self))

\* "Next" on the test screen
NextQuestion ==
    /\ screen = "test"
    /\ Becomes(next_question(Self))

\* a click on one of the radio buttons shown for the current question
SaveAnswer ==
    /\ screen = "test"
    /\ test_state.current_section \in Sections
    /\ current_index(Self) < Len(questions)
    /\ \E btn \in ShownButtons(questions[current_index(Self) + 1]) :
         Becomes(save_answer(Self, btn))

\* "Submit Section" on the test screen
SubmitSection ==
    /\ screen = "test"
    /\ \E reply \in Replies : Becomes(submit_section(Self, reply))

\* "Continue to Next Section" on the break screen
ContinueAfterBreak ==
    /\ screen = "break"
    /\ \E pick \in Picks : Becomes(start_next_section(Self, pick))

\* "Back to Menu" on the results screen
BackToMenu ==
    /\ screen = "review"
    /\ Becomes(back_to_menu(Self))

\* The process ends (window closed, crash, power loss) and is started
\* again: __init__ runs on the files the ended process left.
Restart ==
    /\ \E reply \in Replies :
       \E pick \in PicksOnStart(progress_file, reply) :
         Becomes(Construct(Self, reply, pick))

Next ==
    \/ StartFullTest
    \/ ViewAnalytics
    \/ AnalyticsBack
    \/ Tick
    \/ PrevQuestion
    \/ NextQuestion
    \/ SaveAnswer
    \/ SubmitSection
    \/ ContinueAfterBreak
    \/ BackToMenu
    \/ Restart

Spec == Init /\ [][Next]_vars

\* A snapshot without its question set appears at PROGRESS_PATH while no
\* session is stored there: a progress file of an older version put back in
\* place.  Its index is whatever that file holds; nothing ties it to the
\* sample size of the banks and config of today.
RestoreOldSnapshot ==
    /\ screen = "menu"
    /\ analytics.tests_taken < MaxTests
    /\ ~progress_file.exists
    /\ \E p \in LegacyProgress : progress_file' = p
    /\ UNCHANGED <<test_state, questions, remaining_seconds, timer_active, screen,
                   analytics, results, analytics_file, bank_ok, disk_ok, shown,
                   probe>>

NextWithOldSnapshots ==
    \/ Next
    \/ RestoreOldSnapshot

\* the program in an environment that can hand it any older progress file
SpecWithOldSnapshots == Init /\ [][NextWithOldSnapshots]_vars

\* "Save Results to File" on the results screen
SaveResults ==
    /\ screen = "review"
    /\ \E filename \in BOOLEAN, writable \in BOOLEAN :
         Becomes(save_results(Self, filename, writable))

NextWithExport ==
    \/ Next
    \/ SaveResults

\* the program with the export button of the results screen in use
SpecWithExport == Init /\ [][NextWithExport]_vars

\* The process dies inside save_progress, between open(PROGRESS_PATH, "w"),
\* which empties the file, and the end of json.dump: the file is left cut
\* short and nothing of the process is left in memory.
TornWrite ==
    /\ screen \in {"test", "break"}
    /\ progress_file' = CorruptProgress
    /\ screen' = "off"
    /\ timer_active' = FALSE
    /\ test_state' = InitialTestState(None)
    /\ questions' = <<>>
    /\ remaining_seconds' = 0
    /\ analytics' = DefaultAnalytics
    /\ results' = NoResults
    /\ shown' = NoDialog
    /\ UNCHANGED <<analytics_file, bank_ok, disk_ok, probe>>

NextWithTornWrites ==
    \/ Next
    \/ TornWrite

\* the program on a machine that can lose power in the middle of a write
SpecWithTornWrites == Init /\ [][NextWithTornWrites]_vars

-----------------------------------------------------------------------------
(* Functions applied on their own *)

\* the variables hold the state s
Holds(s) ==
    /\ test_state = s.test_state
    /\ questions = s.questions
    /\ remaining_seconds = s.remaining_seconds
    /\ timer_active = s.timer_active
    /\ screen = s.screen
    /\ analytics = s.analytics
    /\ results = s.results
    /\ progress_file = s.progress_file
    /\ analytics_file = s.analytics_file
    /\ bank_ok = s.bank_ok
    /\ disk_ok = s.disk_ok
    /\ shown = s.shown

FreshInstall ==
    [ progress_file  |-> NoProgress,
      analytics_file |-> NoAnalyticsFile,
      bank_ok        |-> [sec \in Sections |-> TRUE],
      disk_ok        |-> TRUE ]

\* the application on its menu after a first start; the function under
\* study is called beside it
AppOnMenu ==
    \E pick \in PicksOnStart(NoProgress, No) :
        Holds(Construct(FreshInstall, No, pick))

AppUnchanged ==
    UNCHANGED <<test_state, questions, remaining_seconds, timer_active, screen,
                analytics, results, progress_file, analytics_file, bank_ok,
                disk_ok, shown>>

\* question banks of up to MaxPool entries, each entry with or without the
\* four required keys; the id is the entry's place in the file
Pools ==
    UNION { {[i \in 1..n |-> [id |-> i, wellformed |-> w[i]]] :
                w \in [1..n -> BOOLEAN]} : n \in 0..MaxPool }

InitLoader ==
    /\ AppOnMenu
    /\ \E pool \in Pools, readable \in BOOLEAN, n \in 0..MaxNeeded :
          probe = [op |-> "args", pool |-> pool, readable |-> readable,
                   total_needed |-> n, result |-> <<>>]

\* load_questions(section): a random sample
LoadSampled ==
    /\ probe.op = "args"
    /\ \E r \in LoadOutcomes(probe.pool, probe.readable,
                              probe.total_needed, FALSE) :
          probe' = [probe EXCEPT !.op = "sampled", !.result = r]
    /\ AppUnchanged

\* load_questions(section, for_analytics=True): the complete bank
LoadComplete ==
    /\ probe.op = "args"
    /\ \E r \in LoadOutcomes(probe.pool, probe.readable,
                              probe.total_needed, TRUE) :
          probe' = [probe EXCEPT !.op = "complete", !.result = r]
    /\ AppUnchanged

NextLoader ==
    \/ LoadSampled
    \/ LoadComplete

\* load_questions over every small bank and every requested count
SpecLoader == InitLoader /\ [][NextLoader]_vars

\* score data of a section of up to MaxTotal questions
ScoreDatas ==
    UNION { {[correct |-> c, total |-> n] : c \in 0..n} : n \in 0..MaxTotal }

\* the misses of a section with the given hits
Misses(score_data) ==
    [correct |-> score_data.total - score_data.correct, total |-> score_data.total]

InitAnalytics ==
    /\ AppOnMenu
    /\ probe = [op |-> "scored", history |-> <<>>]

\* update_analytics(rw_score_data, math_score_data) on the record as the
\* calls before left it; the math section is given the misses of the
\* reading section
RecordTest ==
    /\ probe.op = "scored"
    /\ analytics.tests_taken < MaxRuns
    /\ \E rw \in ScoreDatas :
         LET s == update_analytics(Self, rw, Misses(rw))
         IN  /\ analytics' = s.analytics
             /\ analytics_file' = s.analytics_file
             /\ shown' = s.shown
             /\ probe' = [probe EXCEPT !.history =
                             Append(@, [RW |-> rw, MATH |-> Misses(rw)])]
    /\ UNCHANGED <<test_state, questions, remaining_seconds, timer_active, screen,
                   results, progress_file, bank_ok, disk_ok>>

NextAnalytics == RecordTest

\* update_analytics called again and again from the empty record
SpecAnalytics == InitAnalytics /\ [][NextAnalytics]_vars

-----------------------------------------------------------------------------
(* The program on a disk that refuses writes *)

\* The first start on a disk that refuses writes and removals (full,
\* read-only, file locked) for as long as the run lasts.
InitWithFailingWrites ==
    /\ \E f \in InitialFiles, reply \in Replies :
       \E pick \in PicksOnStart(f.progress_file, reply) :
         Holds(Construct([f EXCEPT !.disk_ok = FALSE], reply, pick))
    /\ probe = NoProbe

\* the program on a disk that refuses every write
SpecWithFailingWrites == InitWithFailingWrites /\ [][Next]_vars

-----------------------------------------------------------------------------
(* The engine state of the design: Menu, a running section, Break, Results *)

EnginePhase ==
    CASE screen = "test"   -> test_state.current_section
      [] screen = "break"  -> "Break"
      [] screen = "review" -> "Results"
      [] OTHER             -> "Menu"

\* the step is a process start that resumed the snapshot of phase ph
ResumesPhase(ph) ==
    /\ shown'.resume = Yes
    /\ progress_file.exists
    /\ progress_file.test_state.test_phase = ph

\* the complete (unsampled) valid bank of a section, empty when its file
\* cannot be read
CompleteBank(sec) == IF bank_ok[sec] THEN valid_questions(sec) ELSE <<>>

HasStrKey(d) == \E k \in DOMAIN d : ~IsIntKey(k)
HasIntKey(d) == \E k \in DOMAIN d : IsIntKey(k)

Categories ==
    UNION {{Category(BankFile[sec][i]) : i \in 1..Len(BankFile[sec])} : sec \in Sections}

\* The screen, the phase and the current section agree, and a running
\* section's snapshot is the dump of the session in memory.
Consistent ==
    /\ screen = "test" =>
         /\ test_state.current_section \in Sections
         /\ test_state.test_phase = test_state.current_section
         /\ progress_file =
              JsonDump(test_state, questions, remaining_seconds)
    /\ screen = "break" =>
         /\ test_state.test_phase = "BREAK"
         /\ test_state.current_section = "RW"
    /\ screen = "review" => test_state.test_phase = "MATH"
    /\ screen \in {"menu", "analytics"} => test_state.test_phase = "MENU"

-----------------------------------------------------------------------------
(* Claims *)

\* C1: a tick at remaining_seconds = 0 in a running section performs the
\* transition of a confirmed submit (RW -> Break, MATH -> Results) without
\* asking for confirmation, so the section never keeps running after time-up.
C1_TimeUpSubmitsUnasked ==
    [][ (screen = "test" /\ shown'.time_up) =>
          /\ shown'.confirm = None
          /\ screen' = IF test_state.current_section = "RW" THEN "break" ELSE "review"
      ]_vars

\* C2: when the break countdown has expired, the tick advances to the
\* running MATH section without asking for confirmation.
C2_BreakExpiryStartsMath ==
    [][ (screen = "break" /\ shown'.time_up /\ bank_ok["MATH"]) =>
          /\ shown'.confirm = None
          /\ screen' = "test"
          /\ test_state'.current_section = "MATH"
      ]_vars

\* C3: tests_taken grows by exactly 1 in every step that enters Results and
\* by 0 in every other step.
C3_TestsTakenOncePerResults ==
    [][ analytics'.tests_taken =
          analytics.tests_taken +
            (IF screen # "review" /\ screen' = "review" THEN 1 ELSE 0)
      ]_vars

\* C3 witness: Results entered by a confirmed submit, one test counted
C3_Witness ==
    /\ screen = "review"
    /\ shown.confirm = Yes
    /\ analytics.tests_taken = 1

\* C4: a running session that is saved and reloaded on resume comes back
\* identical: test state (phase, section, indices, answers under their
\* integer indices), question set and remaining seconds.
C4_ResumeRoundTrip ==
    [][ ( /\ screen = "test"
          /\ progress_file = JsonDump(test_state, questions, remaining_seconds)
          /\ shown'.resume = Yes ) =>
          /\ test_state' = test_state
          /\ questions' = questions
          /\ remaining_seconds' = remaining_seconds
      ]_vars

\* C5: whenever the phase is RW (MATH), rw_index (math_index) is a valid
\* index into the active question set.
C5_IndexInBounds ==
    /\ test_state.test_phase = "RW" =>
         (0 <= test_state.rw_index /\ test_state.rw_index < Len(questions))
    /\ test_state.test_phase = "MATH" =>
         (0 <= test_state.math_index /\ test_state.math_index < Len(questions))

\* C5 witness: a resume that had to re-sample, at the last RW index
C5_Witness ==
    /\ shown.resume = Yes
    /\ shown.error
    /\ test_state.test_phase = "RW"
    /\ screen = "test"
    /\ test_state.rw_index = Len(questions) - 1
    /\ test_state.rw_index > 0

\* C6: on completion of a test, for each section and category the weakest
\* category count grows by the number of questions of the complete bank in
\* that category whose recorded answer differs from the correct answer,
\* questions with no recorded answer included.
C6_WeakCountsEveryMiss ==
    [][ (screen # "review" /\ screen' = "review") =>
          \A sec \in Sections, cat \in Categories :
             GetOr(analytics'.weakest_categories[sec], cat, 0) =
               GetOr(analytics.weakest_categories[sec], cat, 0) +
               Cardinality({i \in 1..Len(CompleteBank(sec)) :
                              /\ Category(CompleteBank(sec)[i]) = cat
                              /\ Get(test_state.user_answers[sec], IntKey(i - 1))
                                   # CompleteBank(sec)[i].answer})
      ]_vars

\* C7: on the Results screen each section's score is {correct, total} with
\* total the length of the complete valid bank and correct the number of
\* its indices whose recorded answer is the correct answer; an index with
\* no recorded answer is not counted.
C7_ScoreAgainstCompleteBank ==
    screen = "review" =>
      \A sec \in Sections :
         /\ results[sec].total = Len(CompleteBank(sec))
         /\ results[sec].correct =
              Cardinality({i \in 1..Len(CompleteBank(sec)) :
                             /\ IntKey(i - 1) \in DOMAIN test_state.user_answers[sec]
                             /\ test_state.user_answers[sec][IntKey(i - 1)]
                                  = CompleteBank(sec)[i].answer})

\* C7 witness: RW scored 1 of 2 with the second index unanswered, and the
\* MATH total is the complete bank, larger than the sampled set
C7_Witness ==
    /\ screen = "review"
    /\ results.RW = [correct |-> 1, total |-> 2]
    /\ IntKey(1) \notin DOMAIN test_state.user_answers.RW
    /\ results.MATH.total = 2
    /\ Len(questions) = 1

\* C8: the phases are entered in the order RW, Break, MATH, Results: RW from
\* the menu, Break by a confirmed submit of RW, MATH from Break, Results by
\* a confirmed submit of MATH; a resume re-enters the phase of the snapshot.
C8_PhaseOrder ==
    [][ /\ (EnginePhase' = "RW" /\ EnginePhase # "RW") =>
              (EnginePhase = "Menu" /\ shown'.resume = None) \/ ResumesPhase("RW")
        /\ (EnginePhase' = "Break" /\ EnginePhase # "Break") =>
              (EnginePhase = "RW" /\ shown'.confirm = Yes) \/ ResumesPhase("BREAK")
        /\ (EnginePhase' = "MATH" /\ EnginePhase # "MATH") =>
              (EnginePhase = "Break" /\ shown'.resume = None) \/ ResumesPhase("MATH")
        /\ (EnginePhase' = "Results" /\ EnginePhase # "Results") =>
              (EnginePhase = "MATH" /\ shown'.confirm = Yes)
      ]_vars

\* C8 witness: Results reached in a test that was interrupted and resumed
C8_Witness ==
    /\ screen = "review"
    /\ shown.confirm = Yes
    /\ HasStrKey(test_state.user_answers.RW)
    /\ HasIntKey(test_state.user_answers.MATH)

\* C9: a resume of a snapshot of phase RW or MATH with a non-empty question
\* set re-enters that section with the saved question set, the saved index
\* and the saved remaining seconds.
C9_ResumeKeepsQuestionsAndTime ==
    [][ \A sec \in Sections :
          (ResumesPhase(sec) /\ progress_file.questions # <<>>) =>
             /\ screen' = "test"
             /\ timer_active'
             /\ test_state'.current_section = sec
             /\ test_state'.test_phase = sec
             /\ questions' = progress_file.questions
             /\ test_state'.rw_index = progress_file.test_state.rw_index
             /\ test_state'.math_index = progress_file.test_state.math_index
             /\ remaining_seconds' = progress_file.remaining_seconds
      ]_vars

\* C9 witness: RW resumed at index 1 with one second used, no reload notice
C9_Witness ==
    /\ shown.resume = Yes
    /\ ~shown.error
    /\ screen = "test"
    /\ test_state.current_section = "RW"
    /\ test_state.rw_index = 1
    /\ remaining_seconds = config.default_time_limits.rw - 1

C11_EveryMutationPersisted ==
    [][ ( /\ test_state.test_phase \in {"RW", "MATH", "BREAK"}
          /\ Tick \/ PrevQuestion \/ NextQuestion \/ SaveAnswer
          /\ ~shown'.time_up ) =>
          progress_file' = JsonDump(test_state', questions', remaining_seconds')
      ]_vars

\* C12: a submit pressed by the user (the confirmation is asked with no
\* time-up notice before it) and declined leaves the remaining seconds, the
\* phase, the current section, both indices, the answers and the question
\* set (the whole test state, and the snapshot) unchanged, stays on the test
\* screen, and the timer is running afterwards.
C12_DeclinedSubmitChangesNothing ==
    [][ ( /\ screen = "test"
          /\ ~shown'.time_up
          /\ shown'.confirm = No ) =>
          /\ test_state' = test_state
          /\ questions' = questions
          /\ remaining_seconds' = remaining_seconds
          /\ progress_file' = progress_file
          /\ screen' = "test"
          /\ timer_active'
      ]_vars

\* C12 witness: a submit declined in MATH with an answer recorded and the
\* countdown under way
C12_Witness ==
    /\ shown.confirm = No
    /\ ~shown.time_up
    /\ screen = "test"
    /\ test_state.current_section = "MATH"
    /\ HasIntKey(test_state.user_answers.MATH)
    /\ remaining_seconds < config.default_time_limits.math
    /\ timer_active

\* C13: a confirmed submit of the RW section enters Break and leaves the
\* analytics record, in memory and on disk, unchanged; and the only step
\* that changes the analytics record is a confirmed submit of MATH that
\* enters Results.
C13_OnlyMathCompletionTouchesAnalytics ==
    [][ /\ ( /\ screen = "test"
             /\ test_state.current_section = "RW"
             /\ shown'.confirm = Yes ) =>
             /\ screen' = "break"
             /\ test_state'.test_phase = "BREAK"
             /\ analytics' = analytics
             /\ analytics_file' = analytics_file
        /\ (analytics' # analytics \/ analytics_file' # analytics_file) =>
             /\ screen = "test"
             /\ test_state.current_section = "MATH"
             /\ shown'.confirm = Yes
             /\ screen' = "review"
      ]_vars

\* C13 witness: Break entered by a confirmed submit of RW with an answer
\* recorded, no test counted and no analytics file written
C13_Witness ==
    /\ screen = "break"
    /\ shown.confirm = Yes
    /\ ~shown.time_up
    /\ HasIntKey(test_state.user_answers.RW)
    /\ analytics = DefaultAnalytics
    /\ ~analytics_file.exists

\* C14: a confirmed submit of the MATH section ends on the Results screen
\* with the timer stopped, no snapshot on disk, and the analytics record
\* updated from the scores shown: one more test taken, the running averages
\* and the best scores brought up to date with the new percentages, the
\* rounded percentages appended to the history, and the record written to
\* disk.
C14_MathSubmitEndsInResults ==
    [][ ( /\ screen = "test"
          /\ test_state.current_section = "MATH"
          /\ shown'.confirm = Yes ) =>
          /\ screen' = "review"
          /\ ~timer_active'
          /\ ~progress_file'.exists
          /\ analytics'.tests_taken = analytics.tests_taken + 1
          /\ \A sec \in Sections :
               /\ analytics'.best_scores[sec] =
                    FMax(analytics.best_scores[sec], Percentage(results'[sec]))
               /\ analytics'.average_scores[sec] =
                    RunningAverage(analytics.average_scores[sec],
                                   analytics'.tests_taken, Percentage(results'[sec]))
          /\ analytics'.progress_over_time =
               Append(analytics.progress_over_time,
                      [sec \in Sections |-> Round1(Percentage(results'[sec]))])
          /\ analytics_file' = [exists |-> TRUE, data |-> analytics']
      ]_vars

\* C14 witness: Results after a confirmed MATH submit, MATH scored 1 of 2
\* (50 percent), timer stopped, no snapshot
C14_Witness ==
    /\ screen = "review"
    /\ shown.confirm = Yes
    /\ ~timer_active
    /\ ~progress_file.exists
    /\ results.MATH = [correct |-> 1, total |-> 2]
    /\ analytics.best_scores.MATH = <<50, 1>>
    /\ analytics_file.exists

\* C15: "Start Full Test" on the menu, when the RW bank loads, gives the
\* running RW section with both indices 0, no answers in either section,
\* the remaining seconds at the RW time limit, a sample of the RW bank as
\* the active question set, the timer running, and a snapshot that is the
\* dump of exactly this new session.
C15_StartFullTestIsFresh ==
    [][ (StartFullTest /\ bank_ok["RW"]) =>
          /\ screen' = "test"
          /\ test_state'.current_section = "RW"
          /\ test_state'.test_phase = "RW"
          /\ test_state'.rw_index = 0
          /\ test_state'.math_index = 0
          /\ test_state'.user_answers = [RW |-> EmptyDict, MATH |-> EmptyDict]
          /\ remaining_seconds' = config.default_time_limits.rw
          /\ questions' \in Samples("RW")
          /\ timer_active'
          /\ progress_file' = JsonDump(test_state', questions', remaining_seconds')
      ]_vars

\* C15 witness: a fresh RW section just started from the menu, in a run
\* whose MATH bank is unreadable (the run in which a test dropped at the
\* break leaves its snapshot behind on the menu)
C15_Witness ==
    /\ screen = "test"
    /\ shown = NoDialog
    /\ test_state.current_section = "RW"
    /\ test_state.rw_index = 0
    /\ test_state.user_answers = [RW |-> EmptyDict, MATH |-> EmptyDict]
    /\ remaining_seconds = config.default_time_limits.rw
    /\ progress_file = JsonDump(test_state, questions, remaining_seconds)
    /\ ~bank_ok["MATH"]

\* C16: "Continue to Next Section" on the break screen, when the MATH bank
\* loads, gives the running MATH section with a sample of the MATH bank as
\* the active question set, the remaining seconds at the MATH time limit
\* and math_index 0, and leaves rw_index and the RW answers as they were.
C16_ContinueStartsMath ==
    [][ (ContinueAfterBreak /\ bank_ok["MATH"]) =>
          /\ screen' = "test"
          /\ timer_active'
          /\ test_state'.current_section = "MATH"
          /\ test_state'.test_phase = "MATH"
          /\ questions' \in Samples("MATH")
          /\ remaining_seconds' = config.default_time_limits.math
          /\ test_state'.math_index = 0
          /\ test_state'.rw_index = test_state.rw_index
          /\ test_state'.user_answers.RW = test_state.user_answers.RW
      ]_vars

\* C16 witness: MATH just started after a break, RW left at its second
\* question with an answer recorded
C16_Witness ==
    /\ screen = "test"
    /\ shown = NoDialog
    /\ test_state.current_section = "MATH"
    /\ questions \in Samples("MATH")
    /\ remaining_seconds = config.default_time_limits.math
    /\ test_state.math_index = 0
    /\ test_state.rw_index = 1
    /\ HasIntKey(test_state.user_answers.RW)
    /\ test_state.user_answers.MATH = EmptyDict

\* C17: "Previous" (delta -1) and "Next" (delta +1) move the index of the
\* current section by delta when the result is an index of the active
\* question set, and otherwise change nothing; in both cases the other
\* section's index, the answers, the question set and the remaining seconds
\* stay as they were and the section keeps running.  (Neither handler asks
\* the resume question or the submit confirmation or gives the time-up
\* notice; steps that do are not looked at twice.)
C17_NavigateClamps ==
    [][ \A delta \in {-1, 1} :
          ( /\ screen = "test"
            /\ shown'.resume = None
            /\ shown'.confirm = None
            /\ ~shown'.time_up
            /\ IF delta = -1 THEN PrevQuestion ELSE NextQuestion ) =>
            LET sec == test_state.current_section
                idx == IF sec = "RW" THEN test_state.rw_index
                                     ELSE test_state.math_index
                target == idx + delta
                inrange == 0 <= target /\ target < Len(questions)
            IN  /\ test_state' =
                     IF ~inrange THEN test_state
                     ELSE IF sec = "RW"
                          THEN [test_state EXCEPT !.rw_index = target]
                          ELSE [test_state EXCEPT !.math_index = target]
                /\ questions' = questions
                /\ remaining_seconds' = remaining_seconds
                /\ screen' = "test"
                /\ timer_active' = timer_active
                /\ ~inrange => progress_file' = progress_file
      ]_vars

\* C17 witness: RW moved on to its second (last) question, the answer to
\* the first still recorded, the move in the snapshot
C17_Witness ==
    /\ screen = "test"
    /\ shown = NoDialog
    /\ test_state.current_section = "RW"
    /\ test_state.rw_index = 1
    /\ test_state.rw_index = Len(questions) - 1
    /\ DOMAIN test_state.user_answers.RW = {IntKey(0)}
    /\ progress_file.test_state.rw_index = 1

\* the answer codes of the radio buttons shown for question q
RenderedCodes(q) == {ChoiceLetters[b + 1] : b \in ShownButtons(q)}

\* C18: in every reachable state each key of user_answers[section] is an
\* integer index into the question set active for that section, and its
\* value is the code of one of the options rendered for that question.  For
\* the current section the set is the one in memory; for the other section
\* the set is no longer in memory and the index is held against the sample
\* size, the value against the options of the section's bank.
C18_AnswerKeysAreValidIndices ==
    \A sec \in Sections :
      \A k \in DOMAIN test_state.user_answers[sec] :
         /\ IsIntKey(k)
         /\ IF sec = test_state.current_section
            THEN /\ k[2] \in 0..(Len(questions) - 1)
                 /\ test_state.user_answers[sec][k] \in RenderedCodes(questions[k[2] + 1])
            ELSE /\ k[2] \in 0..(SampleSize(sec) - 1)
                 /\ \E i \in 1..Len(valid_questions(sec)) :
                      test_state.user_answers[sec][k]
                        \in RenderedCodes(valid_questions(sec)[i])

\* C19: the one-second timer runs only on the test screen and the break
\* screen, in phase RW, MATH or BREAK: never on the menu, the analytics
\* screen or the results screen, so no tick counts the remaining seconds
\* down there.
C19_TimerOnlyInSectionOrBreak ==
    timer_active =>
      /\ screen \in {"test", "break"}
      /\ EnginePhase \in {"RW", "MATH", "Break"}
      /\ test_state.test_phase \in {"RW", "MATH", "BREAK"}

\* C19 witness: Results entered from a MATH section whose time had run out,
\* the timer stopped
C19_Witness ==
    /\ screen = "review"
    /\ shown.time_up
    /\ shown.confirm = Yes
    /\ remaining_seconds = 0
    /\ ~timer_active

\* C20: a resume of a snapshot of phase RW or MATH that holds no question
\* set, when the section's bank loads, re-samples the question set, sets the
\* remaining seconds to the section's default limit and ends in that
\* section running, with the section's index inside the new question set.
C20_ResumeWithoutQuestionsResamples ==
    [][ \A sec \in Sections :
          (ResumesPhase(sec) /\ progress_file.questions = <<>> /\ bank_ok[sec]) =>
             /\ questions' \in Samples(sec)
             /\ remaining_seconds' = config.default_time_limits[lower(sec)]
             /\ screen' = "test"
             /\ timer_active'
             /\ test_state'.current_section = sec
             /\ test_state'.test_phase = sec
             /\ (IF sec = "RW" THEN test_state'.rw_index ELSE test_state'.math_index)
                  \in 0..(Len(questions') - 1)
      ]_vars

\* C21: when the section's bank gives no questions, "Start Full Test" and
\* "Continue to Next Section" give the section start up: an error is
\* reported, and the engine is on the menu in phase MENU with no question
\* set and the timer not running.
C21_FailedLoadAbortsToMenu ==
    [][ ( \/ ~bank_ok["RW"] /\ screen = "menu" /\ StartFullTest
          \/ ~bank_ok["MATH"] /\ screen = "break" /\ ContinueAfterBreak ) =>
          /\ shown'.error
          /\ screen' = "menu"
          /\ EnginePhase' = "Menu"
          /\ test_state'.test_phase = "MENU"
          /\ questions' = <<>>
          /\ ~timer_active'
      ]_vars

\* C21 witness: the MATH start given up after a break that followed an RW
\* section with an answer recorded
C21_Witness ==
    /\ screen = "menu"
    /\ shown.error
    /\ shown.resume = None
    /\ test_state.current_section = "MATH"
    /\ test_state.test_phase = "MENU"
    /\ HasIntKey(test_state.user_answers.RW)
    /\ ~timer_active

\* the number of entries of the probed bank that load_questions accepts; an
\* unreadable file has none
ValidCount ==
    IF probe.readable
    THEN Cardinality({i \in 1..Len(probe.pool) : probe.pool[i].wellformed})
    ELSE 0

\* C22: a sampled load returns exactly min(v, n) questions of the bank, no
\* two of them the same entry and none of them malformed; a complete load
\* returns all v valid entries in the order of the bank.
C22_LoadReturnsValidSample ==
    LET r == probe.result
        FromBank(q) == \E i \in 1..Len(probe.pool) : probe.pool[i] = q
    IN  /\ probe.op = "sampled" =>
              /\ Len(r) = Min(ValidCount, probe.total_needed)
              /\ \A i, j \in 1..Len(r) : i # j => r[i].id # r[j].id
              /\ \A i \in 1..Len(r) : r[i].wellformed /\ FromBank(r[i])
        /\ probe.op = "complete" =>
              /\ Len(r) = ValidCount
              /\ \A i \in 1..Len(r) : r[i].wellformed /\ FromBank(r[i])
              /\ \A i, j \in 1..Len(r) : i < j => r[i].id < r[j].id

\* C22 witness: two of the three valid entries of a bank sampled, out of
\* bank order
C22_Witness ==
    /\ probe.op = "sampled"
    /\ probe.readable
    /\ ValidCount = 3
    /\ probe.total_needed = 2
    /\ Len(probe.result) = 2
    /\ probe.result[1].id > probe.result[2].id

\* correct / total * 100 of the k-th recorded test, 0 when total is 0
PctOf(history, sec, k) ==
    LET d == history[k][sec]
    IN  IF d.total = 0 THEN <<0, 1>> ELSE <<100 * d.correct, d.total>>

RECURSIVE SumPct(_, _, _)
SumPct(history, sec, k) ==
    IF k = 0 THEN <<0, 1>>
    ELSE LET x == SumPct(history, sec, k - 1)
             y == PctOf(history, sec, k)
         IN  <<x[1] * y[2] + y[1] * x[2], x[2] * y[2]>>

C24_BestIsMaximum ==
    [][ RecordTest =>
          LET n == Len(probe'.history)
          IN  \A sec \in Sections :
                LET old == analytics.best_scores[sec]
                    new == analytics'.best_scores[sec]
                    pct == PctOf(probe'.history, sec, n)
                IN  /\ FLeq(old, new)
                    /\ FLeq(pct, new)
                    /\ FEq(new, old) \/ FEq(new, pct)
                    /\ \A k \in 1..n : FLeq(PctOf(probe'.history, sec, k), new)
                    /\ \/ FEq(new, <<0, 1>>)
                       \/ \E k \in 1..n : FEq(new, PctOf(probe'.history, sec, k))
      ]_vars

\* C24 witness: a second test below the first leaves the best score at the
\* first test's percentage
C24_Witness ==
    /\ probe.op = "scored"
    /\ Len(probe.history) = 2
    /\ probe.history[1].RW = [correct |-> 2, total |-> 3]
    /\ probe.history[2].RW = [correct |-> 1, total |-> 4]
    /\ analytics.best_scores.RW = <<200, 3>>
    /\ analytics.best_scores.MATH = <<75, 1>>

\* C25: when the process starts on an existing snapshot and the user
\* answers No to "Resume?", the snapshot is deleted and the application is
\* on the menu with the initial session state.
C25_DeclinedResumeStartsClean ==
    [][ (progress_file.exists /\ shown'.resume = No) =>
          /\ ~progress_file'.exists
          /\ screen' = "menu"
          /\ test_state' = InitialTestState("MENU")
          /\ questions' = <<>>
          /\ ~timer_active'
      ]_vars

\* C25 witness: the menu after the question "Resume?", asked only when a
\* snapshot exists, was answered No
C25_Witness ==
    /\ shown.resume = No
    /\ ~shown.warning
    /\ screen = "menu"
    /\ ~progress_file.exists
    /\ test_state = InitialTestState("MENU")
    /\ questions = <<>>
    /\ ~timer_active

\* C26: when the user answers Yes to "Resume?" and the snapshot cannot be
\* parsed, the load error is reported, the snapshot is deleted and the
\* application is on the menu with the initial session state and the timer
\* not running.
C26_UnreadableSnapshotStartsClean ==
    [][ (progress_file.exists /\ ~progress_file.parses /\ shown'.resume = Yes) =>
          /\ shown'.warning
          /\ ~progress_file'.exists
          /\ screen' = "menu"
          /\ test_state' = InitialTestState("MENU")
          /\ questions' = <<>>
          /\ ~timer_active'
      ]_vars

\* C26 witness: the menu after the load error
C26_Witness ==
    /\ shown.warning
    /\ shown.resume = Yes
    /\ screen = "menu"
    /\ ~progress_file.exists
    /\ test_state = InitialTestState("MENU")
    /\ questions = <<>>
    /\ ~timer_active

\* C27: "Back to Menu" on the results screen leaves the session state as it
\* is at start (no current section, both indices 0, no answers, no question
\* set), the timer stopped and no snapshot on disk, and leaves the
\* analytics record and its file as they were.
C27_BackToMenuResetsSession ==
    [][ (screen = "review" /\ BackToMenu) =>
          /\ screen' = "menu"
          /\ test_state' = InitialTestState("MENU")
          /\ questions' = <<>>
          /\ ~timer_active'
          /\ ~progress_file'.exists
          /\ analytics' = analytics
          /\ analytics_file' = analytics_file
      ]_vars

\* C27 witness: the menu reached from the results of a completed test, the
\* scores still on the results screen behind it
C27_Witness ==
    /\ screen = "menu"
    /\ results # NoResults
    /\ analytics.tests_taken = 1
    /\ analytics_file.exists
    /\ test_state = InitialTestState("MENU")
    /\ questions = <<>>
    /\ ~progress_file.exists
    /\ ~timer_active

\* C28: scoring only reads.  The scores of the results screen and the
\* scores written by an export are the same {correct, total} for each
\* section, and neither showing the results nor exporting them changes the
\* session state.
C28_ExportScoresEqualResults ==
    [][ /\ (screen = "review" /\ shown'.exported # NoResults /\ SaveResults) =>
              /\ shown'.exported = results
              /\ results' = results
              /\ test_state' = test_state
              /\ questions' = questions
              /\ remaining_seconds' = remaining_seconds
        /\ (screen = "test" /\ screen' = "review") =>
              /\ results' = [sec \in Sections |-> ExportScoreData(Self, sec)]
              /\ test_state' = test_state
              /\ questions' = questions
      ]_vars

\* C28 witness: an export of a test with an answer right in one section and
\* nothing answered in the other
C28_Witness ==
    /\ screen = "review"
    /\ shown.exported = results
    /\ results.RW.correct + results.MATH.correct = 1
    /\ results.RW.total = 2
    /\ HasIntKey(test_state.user_answers.RW) # HasIntKey(test_state.user_answers.MATH)

\* C29: "Save Results to File", whether the file is written, the write
\* fails or the dialog is cancelled, changes neither the session state nor
\* the analytics record and its file nor the snapshot, and stays on the
\* results screen.
C29_ExportChangesNothing ==
    [][ (screen = "review" /\ screen' = "review" /\ SaveResults) =>
          /\ test_state' = test_state
          /\ questions' = questions
          /\ remaining_seconds' = remaining_seconds
          /\ timer_active' = timer_active
          /\ analytics' = analytics
          /\ analytics_file' = analytics_file
          /\ progress_file' = progress_file
          /\ results' = results
      ]_vars

\* C29 witness: the results screen after an export whose write failed
C29_Witness ==
    /\ screen = "review"
    /\ shown.error
    /\ shown.confirm = None
    /\ shown.exported = NoResults
    /\ bank_ok["RW"] /\ bank_ok["MATH"]
    /\ analytics.tests_taken = 1
    /\ ~progress_file.exists

\* what a handler leaves in memory and on the screen
InMemory(s) ==
    [ test_state        |-> s.test_state,
      questions         |-> s.questions,
      remaining_seconds |-> s.remaining_seconds,
      timer_active      |-> s.timer_active,
      analytics         |-> s.analytics,
      results           |-> s.results,
      screen            |-> s.screen ]

\* the application object in front of a disk that refuses writes, and in
\* front of one that takes them
SelfDiskFails == [Self EXCEPT !.disk_ok = FALSE]
SelfDiskWorks == [Self EXCEPT !.disk_ok = TRUE]

\* C30: a failed write of the snapshot or of the analytics file is
\* absorbed.  Whatever handler runs next in whatever state, it ends with
\* the same session state, analytics record, timer and screen when its
\* writes fail as when they succeed.
C30_FailedWritesAbsorbed ==
    /\ (screen = "menu" /\ analytics.tests_taken < MaxTests) =>
          \A pick \in Picks :
              InMemory(start_full_test(SelfDiskFails, pick)) =
              InMemory(start_full_test(SelfDiskWorks, pick))
    /\ timer_active =>
          \A reply \in Replies :
              InMemory(update_timer(SelfDiskFails, reply)) =
              InMemory(update_timer(SelfDiskWorks, reply))
    /\ screen = "test" =>
          /\ InMemory(prev_question(SelfDiskFails)) =
             InMemory(prev_question(SelfDiskWorks))
          /\ InMemory(next_question(SelfDiskFails)) =
             InMemory(next_question(SelfDiskWorks))
          /\ \A reply \in Replies :
                InMemory(submit_section(SelfDiskFails, reply)) =
                InMemory(submit_section(SelfDiskWorks, reply))
    /\ ( /\ screen = "test"
         /\ test_state.current_section \in Sections
         /\ current_index(Self) < Len(questions) ) =>
          \A btn \in ShownButtons(questions[current_index(Self) + 1]) :
              InMemory(save_answer(SelfDiskFails, btn)) =
              InMemory(save_answer(SelfDiskWorks, btn))
    /\ screen = "break" =>
          \A pick \in Picks :
              InMemory(start_next_section(SelfDiskFails, pick)) =
              InMemory(start_next_section(SelfDiskWorks, pick))
    /\ screen = "review" =>
          InMemory(back_to_menu(SelfDiskFails)) =
          InMemory(back_to_menu(SelfDiskWorks))

\* C30 witness: the results of a test on a disk that took neither the
\* analytics file nor any snapshot of the two sections: the record in memory
\* counts the test, the failure was reported, no file was written
C30_Witness ==
    /\ ~disk_ok
    /\ screen = "review"
    /\ shown.error
    /\ bank_ok["RW"] /\ bank_ok["MATH"]
    /\ analytics.tests_taken = 1
    /\ ~analytics_file.exists
    /\ ~progress_file.exists
    /\ HasIntKey(test_state.user_answers.MATH)

\* the answer recorded for the question at index i of a section, under the
\* key of this process or under the key a reload gives it
RecordedAnswer(answers, i) ==
    IF IntKey(i) \in DOMAIN answers THEN answers[IntKey(i)]
    ELSE IF StrKey(i) \in DOMAIN answers THEN answers[StrKey(i)]
    ELSE None

\* the questions of the set in memory answered with their own correct answer
CorrectAmongPresented(answers, presented) ==
    Cardinality({i \in 1..Len(presented) :
                    RecordedAnswer(answers, i - 1) = presented[i].answer})

\* C31: the correct count shown on the results screen for a section is the
\* number of questions of the set presented in that section whose recorded
\* answer is that question's correct answer.  Stated for the math section,
\* whose presented set is still in memory on the results screen.
C31_ScoreMatchesPresentedSet ==
    (screen = "review" /\ test_state.current_section = "MATH") =>
        results.MATH.correct =
            CorrectAmongPresented(test_state.user_answers.MATH, questions)

\* the application object as the step leaves it, for the scoring functions
SelfReloaded == [Self EXCEPT !.test_state = test_state']

\* the increments update_analytics would make to the weakest categories of
\* a section for the session s
WeakIncrements(s, sec) ==
    LET all == load_questions(s, sec, TRUE, <<>>)
    IN  WeakLoop(EmptyDict, s.test_state.user_answers[sec], all, Len(all))

\* C32: an interruption is transparent to scoring.  When the process is
\* started again and the snapshot of a session in progress is resumed, every
\* answer the ended process held under an integer index is found under that
\* index again, and the session scores and counts weak categories as the
\* ended process would have.
C32_ResumeTransparentToScoring ==
    [][ (ResumesPhase("RW") \/ ResumesPhase("MATH") \/ ResumesPhase("BREAK")) =>
          \A sec \in Sections :
             /\ \A k \in DOMAIN test_state.user_answers[sec] :
                   IsIntKey(k) =>
                      Get(test_state'.user_answers[sec], k) =
                      test_state.user_answers[sec][k]
             /\ ScoreData(SelfReloaded, sec) = ScoreData(Self, sec)
             /\ WeakIncrements(SelfReloaded, sec) = WeakIncrements(Self, sec)
      ]_vars

\* C33: whenever the engine is at Menu or at Results no snapshot exists on
\* disk, whatever path led there.
C33_NoSnapshotAtMenuOrResults ==
    EnginePhase \in {"Menu", "Results"} => ~progress_file.exists

\* C34: while a section (RW or MATH) is running and writes succeed, the
\* snapshot on disk is the dump of the session in memory (test state, active
\* question set, remaining seconds) after every completed action: section
\* start, tick, navigation, recorded answer.
C34_RunningSectionSnapshotCurrent ==
    (EnginePhase \in Sections /\ disk_ok) =>
        /\ progress_file.exists
        /\ progress_file.parses
        /\ progress_file = JsonDump(test_state, questions, remaining_seconds)

\* C34 witness: the RW section after a tick, a move to the second question
\* and an answer recorded there, each of them in the snapshot
C34_Witness ==
    /\ screen = "test"
    /\ test_state.current_section = "RW"
    /\ test_state.rw_index = 1
    /\ IntKey(1) \in DOMAIN test_state.user_answers.RW
    /\ remaining_seconds = config.default_time_limits.rw - 1
    /\ progress_file.test_state.rw_index = 1
    /\ StrKey(1) \in DOMAIN progress_file.test_state.user_answers.RW
    /\ progress_file.remaining_seconds = remaining_seconds

\* a section or the break is active
CountingDown == EnginePhase \in {"RW", "MATH", "Break"}

\* C35, ticks: a tick while a section or the break is active and seconds
\* remain takes exactly one second and changes no index, answer, phase or
\* question set
TickTakesOneSecond ==
    (CountingDown /\ remaining_seconds > 0 /\ Tick) =>
        /\ remaining_seconds' = remaining_seconds - 1
        /\ test_state' = test_state
        /\ questions' = questions
        /\ EnginePhase' = EnginePhase

\* C35, monotony: while the phase stays the same the remaining seconds do
\* not go up
NoIncreaseWithinPhase ==
    (CountingDown /\ EnginePhase' = EnginePhase) =>
        remaining_seconds' <= remaining_seconds

\* C35: each tick while a section or the break is active and seconds remain
\* decrements the remaining seconds by exactly 1 and changes no index,
\* answer, phase or question set; the remaining seconds are never negative;
\* and within one phase they never increase.
C35_TimerCountsDown ==
    [][ /\ TickTakesOneSecond
        /\ remaining_seconds >= 0 /\ remaining_seconds' >= 0
        /\ NoIncreaseWithinPhase
      ]_vars

\* C36: the history is append-only and in step with the counter.  Each
\* call of update_analytics puts exactly one entry at the end of
\* progress_over_time and leaves the earlier entries as they were, so from
\* the empty record the length of the history is tests_taken.
C36_HistoryAppendOnly ==
    [][ RecordTest =>
          LET before == analytics.progress_over_time
              after  == analytics'.progress_over_time
          IN  /\ Len(before) = analytics.tests_taken
              /\ Len(after) = Len(before) + 1
              /\ SubSeq(after, 1, Len(before)) = before
              /\ after[Len(after)] =
                   [ sec \in Sections |->
                       Round1(PctOf(probe'.history, sec, Len(probe'.history))) ]
              /\ Len(after) = analytics'.tests_taken
      ]_vars

\* C36 witness: two tests on record, the entry of the first (50 percent in
\* both sections) still in front of the entry of the second
C36_Witness ==
    /\ probe.op = "scored"
    /\ analytics.tests_taken = 2
    /\ Len(analytics.progress_over_time) = 2
    /\ analytics.progress_over_time[1] = [RW |-> 500, MATH |-> 500]
    /\ analytics.progress_over_time[2] = [RW |-> 1000, MATH |-> 0]

====
